---- MODULE Spec2Model ----
(***************************************************************************)
(* A model of src/snarfBrowser.ts: the snarf browser of web-cat-vscode.    *)
(*                                                                         *)
(*   SpecTree     fetchSite's parse and normalisation of one manifest and  *)
(*                fetchData's grouping of its packages into a site node,   *)
(*                one reduce iteration per step.                           *)
(*   SpecLoad     load cycles of SnarfDataProvider: beforeLoad, fetchData  *)
(*                with its concurrent fetchSite calls joined by            *)
(*                Promise.all, then afterLoad or onLoadError.              *)
(*   SpecInstall  snarfItem: the workspace guard, downloadItem and the     *)
(*                progress scope around it.                                *)
(*                                                                         *)
(* JavaScript values are tagged records: a value is told from undefined    *)
(* and an array from an object by its tag, as Array.isArray and the        *)
(* truthiness tests of the source tell them apart.                         *)
(***************************************************************************)
EXTENDS Integers, Sequences, FiniteSets, TLC

VARIABLES
  \* SpecTree
  tManifest,      \* the manifest served: [name, elems], elems the <package> elements
  tpc,            \* position in fetchSite / fetchData's map callback
  tPackages,      \* the packages returned by fetchSite
  tItems,         \* packages.map(this.makeItem)
  tIdx,           \* number of reduce iterations done
  tAcc,           \* the reduce accumulator, a plain object
  tNode,          \* the site node built
  \* SpecLoad
  snarfURLs,      \* getConfig().snarfURLs
  lpc,            \* per load cycle: idle, fetching, resolved, rejected
  resp,           \* per load cycle and configured URL: pending, ok, bad
  values,         \* per load cycle: the values array of Promise.all
  result,         \* per load cycle: what fetchData's promise settled with
  requests,       \* per load cycle: HTTP GETs issued by fetchData
  settledBy,      \* per load cycle: index of the fetch whose response settled Promise.all
  snarfsErrored,  \* context key web-CAT.snarfsErrored
  snarfsLoaded,   \* context key web-CAT.snarfsLoaded
  \* SpecInstall
  workspaceFolders, \* workspace.workspaceFolders
  fsDirs,         \* names of the directories that exist under the workspace root
  ipc,            \* per install: position in snarfItem / downloadItem
  pack,           \* per install: the package installed
  bytes,          \* per install: the body downloaded: none, zip, corrupt
  found,          \* per install: result of fs.existsSync: unchecked, present, absent
  answer,         \* per install: answer to the overwrite prompt
  timer,          \* per install: delay(1000): idle, running, elapsed
  progress,       \* per install: the withProgress scope: none, shown, ended
  msgs,           \* per install: messages shown, by kind
  gets,           \* per install: HTTP GETs issued
  writes,         \* per install: extractions that wrote under the destination
  unhandled       \* per install: a rejection nobody handles

treeVars == <<tManifest, tpc, tPackages, tItems, tIdx, tAcc, tNode>>
loadVars == <<snarfURLs, lpc, resp, values, result, requests, settledBy,
              snarfsErrored, snarfsLoaded>>
instVars == <<workspaceFolders, fsDirs, ipc, pack, bytes, found, answer, timer,
              progress, msgs, gets, writes, unhandled>>
vars == <<treeVars, loadVars, instVars>>

----------------------------------------------------------------------------
\* Bounds of the model.

MaxPkgs == 3       \* <package> elements in a manifest of SpecTree
MaxURLs == 2       \* configured site URLs
MaxCycles == 2     \* load cycles that may overlap
MaxInstalls == 2   \* installs that may overlap

SeqUpTo(S, n) == UNION {[1..k -> S] : k \in 0..n}

Range(s) == {s[k] : k \in 1..Len(s)}

----------------------------------------------------------------------------
\* JavaScript values.

JsUndefined == [tag |-> "undefined"]

JsArray(s) == [tag |-> "array", val |-> s]

\* A SnarfSitePackageItem. version, description and entry are carried through
\* untouched by the tree; entry's URL is what snarfItem downloads.
Package(c, n) == [tag |-> "object", category |-> c, name |-> n]

Categories == {"hw", "lab", "__proto__", "hasOwnProperty"}

Names == {"apple", "Banana"}

Packages == {Package(c, n) : c \in Categories, n \in Names}

\* a.localeCompare(b) < 0, = 0, > 0 as the sign of LocaleRank(a) - LocaleRank(b):
\* the locale-aware order puts "apple" before "Banana", unlike the code-unit order.
LocaleRank(n) == CASE n = "apple" -> 1 [] n = "Banana" -> 2 [] OTHER -> 3

----------------------------------------------------------------------------
\* fetchSite: parse and normalisation.

\* parser.parse(content, ...).snarf_site.package: fast-xml-parser gives no
\* property for no element, the element's object for one element and an array
\* for repeated elements.
XmlPackage(elems) ==
  IF Len(elems) = 0 THEN JsUndefined
  ELSE IF Len(elems) = 1 THEN elems[1]
  ELSE JsArray(elems)

IsArray(v) == v.tag = "array"

NormalizePackages(p) == IF IsArray(p) THEN p.val ELSE <<p>>

\* The value fetchSite returns for a response body holding manifest m.
ParseSite(m) == [label |-> m.name, packages |-> NormalizePackages(XmlPackage(m.elems))]

----------------------------------------------------------------------------
\* fetchData: the tree of one site.

\* makeItem(x). Reading x["@_name"] of undefined throws a TypeError.
MakeItemThrows(x) == x.tag = "undefined"

makeItem(x) ==
  [category |-> x.category,
   item |-> [label |-> x.name, iconId |-> "package", item |-> x,
             contextValue |-> "project"]]

\* packages.map(this.makeItem)
MapMakeItem(packages) ==
  IF \E k \in 1..Len(packages) : MakeItemThrows(packages[k])
  THEN [threw |-> TRUE, val |-> <<>>]
  ELSE [threw |-> FALSE, val |-> [k \in 1..Len(packages) |-> makeItem(packages[k])]]

\* The accumulator {} of the reduce: its own properties in insertion order,
\* whether its prototype is still Object.prototype, and whether the callback threw.
EmptyObject == [own |-> <<>>, proto |-> "Object.prototype", threw |-> FALSE]

HasOwn(acc, key) == \E j \in 1..Len(acc.own) : acc.own[j].key = key

OwnIndex(acc, key) == CHOOSE j \in 1..Len(acc.own) : acc.own[j].key = key

\* One call of the reduce callback.
\* acc.hasOwnProperty resolves to the own property of that name once a category
\* "hasOwnProperty" has stored an array there, and calling an array throws.
\* acc["__proto__"] = [] goes to the prototype setter: it makes the array the
\* prototype and adds no own property; the push then lands in that array.
ReduceStep(acc, ci) ==
  IF acc.threw THEN acc
  ELSE IF HasOwn(acc, "hasOwnProperty") THEN [acc EXCEPT !.threw = TRUE]
  ELSE IF ci.category = "__proto__" THEN [acc EXCEPT !.proto = "array"]
  ELSE IF ~HasOwn(acc, ci.category)
       THEN [acc EXCEPT !.own = Append(@, [key |-> ci.category, items |-> <<ci.item>>])]
       ELSE [acc EXCEPT !.own[OwnIndex(acc, ci.category)].items = Append(@, ci.item)]

RECURSIVE Reduce(_, _, _)
Reduce(acc, items, k) ==
  IF k > Len(items) THEN acc ELSE Reduce(ReduceStep(acc, items[k]), items, k + 1)

\* children.sort((a, b) => a.label.localeCompare(b.label)): a stable sort.
RECURSIVE InsertSorted(_, _)
InsertSorted(s, x) ==
  IF s = <<>> THEN <<x>>
  ELSE IF LocaleRank(s[Len(s)].label) <= LocaleRank(x.label) THEN Append(s, x)
  ELSE Append(InsertSorted(SubSeq(s, 1, Len(s) - 1), x), s[Len(s)])

RECURSIVE SortByLabel(_)
SortByLabel(s) ==
  IF s = <<>> THEN <<>>
  ELSE InsertSorted(SortByLabel(SubSeq(s, 1, Len(s) - 1)), s[Len(s)])

\* Object.entries(items).map(...): one folder node per own property.
CategoryNodes(acc) ==
  [j \in 1..Len(acc.own) |->
     [label |-> acc.own[j].key, iconId |-> "folder",
      children |-> SortByLabel(acc.own[j].items)]]

SiteNode(label, acc) == [label |-> label, iconId |-> "project", children |-> CategoryNodes(acc)]

\* The callback of sites.map for one site: the node, or a throw.
BuildSite(site) ==
  LET mapped == MapMakeItem(site.packages)
      acc == Reduce(EmptyObject, mapped.val, 1)
  IN IF mapped.threw \/ acc.threw
     THEN [threw |-> TRUE, node |-> JsUndefined]
     ELSE [threw |-> FALSE, node |-> SiteNode(site.label, acc)]

----------------------------------------------------------------------------
\* SpecTree: one manifest through fetchSite and the sites.map callback.

TreeIdle ==
  /\ tManifest = [name |-> "S", elems |-> <<>>]
  /\ tpc = "off"
  /\ tPackages = <<>>
  /\ tItems = <<>>
  /\ tIdx = 0
  /\ tAcc = EmptyObject
  /\ tNode = JsUndefined

TreeInit ==
  /\ tManifest \in [name : {"S"}, elems : SeqUpTo(Packages, MaxPkgs)]
  /\ tpc = "parse"
  /\ tPackages = <<>>
  /\ tItems = <<>>
  /\ tIdx = 0
  /\ tAcc = EmptyObject
  /\ tNode = JsUndefined

\* fetchSite, lines 35-41.
TParse ==
  /\ tpc = "parse"
  /\ tPackages' = ParseSite(tManifest).packages
  /\ tpc' = "map"
  /\ UNCHANGED <<tManifest, tItems, tIdx, tAcc, tNode, loadVars, instVars>>

\* packages.map(this.makeItem), line 51.
TMap ==
  /\ tpc = "map"
  /\ LET mapped == MapMakeItem(tPackages)
     IN /\ tItems' = mapped.val
        /\ tpc' = IF mapped.threw THEN "threw" ELSE "reduce"
  /\ UNCHANGED <<tManifest, tPackages, tIdx, tAcc, tNode, loadVars, instVars>>

\* One iteration of the reduce, lines 51-55.
TReduce ==
  /\ tpc = "reduce"
  /\ tIdx < Len(tItems)
  /\ tAcc' = ReduceStep(tAcc, tItems[tIdx + 1])
  /\ tIdx' = tIdx + 1
  /\ tpc' = IF tAcc'.threw THEN "threw" ELSE "reduce"
  /\ UNCHANGED <<tManifest, tPackages, tItems, tNode, loadVars, instVars>>

\* Object.entries and the site node, lines 57-65.
TEntries ==
  /\ tpc = "reduce"
  /\ tIdx = Len(tItems)
  /\ tNode' = SiteNode(ParseSite(tManifest).label, tAcc)
  /\ tpc' = "done"
  /\ UNCHANGED <<tManifest, tPackages, tItems, tIdx, tAcc, loadVars, instVars>>

TreeNext == TParse \/ TMap \/ TReduce \/ TEntries

----------------------------------------------------------------------------
\* SpecLoad: the sites served, fetchSite, Promise.all and the load cycle.

URLs == {"u1", "u2"}

\* What each site serves with a success status: a manifest of one package and
\* a manifest of two packages in two categories.
Manifest(url) ==
  IF url = "u1"
  THEN [name |-> "S1", elems |-> <<Package("hw", "apple")>>]
  ELSE [name |-> "S2", elems |-> <<Package("lab", "Banana"), Package("hw", "apple")>>]

Cycles == 1..MaxCycles

\* Falsy with the empty array taken for falsy as well.
FalsyOrEmpty(v) == v.tag = "undefined" \/ Len(v.val) = 0

\* !snarfURLs: undefined is falsy, every array (the empty one too) is truthy.
Falsy(v) == v.tag = "undefined"

\* fetchSite without the test of resp.ok: the body is parsed whatever the status.
FetchSiteAnyStatus(url, ok) == [threw |-> FALSE, val |-> ParseSite(Manifest(url))]

\* fetchSite(url) once the response is there; ok is resp.ok.
FetchSite(url, ok) ==
  IF ~ok THEN [threw |-> TRUE, val |-> JsUndefined]
  ELSE [threw |-> FALSE, val |-> ParseSite(Manifest(url))]

Unfilled == [filled |-> FALSE, val |-> JsUndefined]

\* Settle with the values kept in the order the promises are fulfilled.
SettleInArrivalOrder(vals, i, v) ==
  LET free == CHOOSE k \in 1..Len(vals) :
                ~vals[k].filled /\ \A j \in 1..(k - 1) : vals[j].filled
  IN [vals EXCEPT ![free] = [filled |-> TRUE, val |-> v]]

\* Promise.all stores the value of its i-th promise at index i of its values.
Settle(vals, i, v) == [vals EXCEPT ![i] = [filled |-> TRUE, val |-> v]]

AllFilled(vals) == \A k \in 1..Len(vals) : vals[k].filled

\* sites.map(...), lines 50-66: a throw in the callback rejects fetchData.
BuildTree(vals) ==
  LET built == [k \in 1..Len(vals) |-> BuildSite(vals[k].val)]
  IN IF \E k \in 1..Len(vals) : built[k].threw
     THEN [tag |-> "error", what |-> "TypeError"]
     ELSE [tag |-> "tree", nodes |-> [k \in 1..Len(vals) |-> built[k].node]]

NoResult == [tag |-> "none"]

LoadIdle ==
  /\ snarfURLs = JsUndefined
  /\ lpc = [c \in Cycles |-> "idle"]
  /\ resp = [c \in Cycles |-> <<>>]
  /\ values = [c \in Cycles |-> <<>>]
  /\ result = [c \in Cycles |-> NoResult]
  /\ requests = [c \in Cycles |-> 0]
  /\ settledBy = [c \in Cycles |-> 0]
  /\ snarfsErrored = FALSE
  /\ snarfsLoaded = FALSE

LoadInit ==
  /\ snarfURLs \in {JsUndefined} \cup {JsArray(s) : s \in SeqUpTo(URLs, MaxURLs)}
  /\ lpc = [c \in Cycles |-> "idle"]
  /\ resp = [c \in Cycles |-> <<>>]
  /\ values = [c \in Cycles |-> <<>>]
  /\ result = [c \in Cycles |-> NoResult]
  /\ requests = [c \in Cycles |-> 0]
  /\ settledBy = [c \in Cycles |-> 0]
  /\ snarfsErrored = FALSE
  /\ snarfsLoaded = FALSE

beforeLoad ==
  /\ snarfsErrored' = FALSE
  /\ snarfsLoaded' = FALSE

afterLoad ==
  /\ snarfsErrored' = FALSE
  /\ snarfsLoaded' = TRUE

\* super.onLoadError(e) reports the error and sets no context key.
onLoadError ==
  /\ snarfsErrored' = TRUE
  /\ UNCHANGED snarfsLoaded

\* The call of fetchData: lines 45-48 up to the await, every fetch issued.
fetchData(c) ==
  IF Falsy(snarfURLs)
  THEN /\ result' = [result EXCEPT ![c] = JsUndefined]
       /\ lpc' = [lpc EXCEPT ![c] = "resolved"]
       /\ requests' = [requests EXCEPT ![c] = 0]
       /\ resp' = [resp EXCEPT ![c] = <<>>]
       /\ values' = [values EXCEPT ![c] = <<>>]
  ELSE LET n == Len(snarfURLs.val)
       IN /\ requests' = [requests EXCEPT ![c] = n]
          /\ resp' = [resp EXCEPT ![c] = [k \in 1..n |-> "pending"]]
          /\ values' = [values EXCEPT ![c] = [k \in 1..n |-> Unfilled]]
          /\ IF n = 0
             THEN /\ result' = [result EXCEPT ![c] = BuildTree(<<>>)]
                  /\ lpc' = [lpc EXCEPT ![c] = "resolved"]
             ELSE /\ result' = [result EXCEPT ![c] = NoResult]
                  /\ lpc' = [lpc EXCEPT ![c] = "fetching"]

\* The continuation of a settled fetchData promise runs as a microtask, ahead of
\* the next event of the loop (a command, a response): no event is handled while
\* a cycle has its promise settled and its hook still to run.
NoContinuationPending == \A c \in Cycles : lpc[c] \in {"idle", "fetching"}

\* A load cycle starts.
Load(c) ==
  /\ NoContinuationPending
  /\ lpc[c] = "idle"
  /\ beforeLoad
  /\ fetchData(c)
  /\ settledBy' = [settledBy EXCEPT ![c] = 0]
  /\ UNCHANGED <<snarfURLs, treeVars, instVars>>

\* The response of the i-th fetch of cycle c arrives: the rest of fetchSite,
\* then Promise.all, then the rest of fetchData when every value is there.
\* Promise.all rejects with the first rejection; the fetches still pending then
\* are not cancelled, and their responses settle nothing: the promise of
\* Promise.all stays rejected and fetchData has already thrown.
FetchResponds(c, i, ok) ==
  /\ NoContinuationPending
  /\ lpc[c] = "fetching"
  /\ i \in 1..Len(resp[c])
  /\ resp[c][i] = "pending"
  /\ resp' = [resp EXCEPT ![c][i] = IF ok THEN "ok" ELSE "bad"]
  /\ LET r == FetchSite(snarfURLs.val[i], ok)
         vals == Settle(values[c], i, r.val)
     IN IF r.threw
        THEN /\ result' = [result EXCEPT ![c] = [tag |-> "error", what |-> snarfURLs.val[i]]]
             /\ lpc' = [lpc EXCEPT ![c] = "rejected"]
             /\ settledBy' = [settledBy EXCEPT ![c] = i]
             /\ UNCHANGED values
        ELSE /\ values' = [values EXCEPT ![c] = vals]
             /\ IF AllFilled(vals)
                THEN /\ result' = [result EXCEPT ![c] = BuildTree(vals)]
                     /\ lpc' = [lpc EXCEPT ![c] =
                                  IF BuildTree(vals).tag = "tree" THEN "resolved" ELSE "rejected"]
                     /\ settledBy' = [settledBy EXCEPT ![c] = i]
                ELSE UNCHANGED <<result, lpc, settledBy>>
  /\ UNCHANGED <<snarfURLs, requests, snarfsErrored, snarfsLoaded, treeVars, instVars>>

\* The promise of cycle c and what hangs on it are dropped once the cycle is over.
Drop(c) ==
  /\ lpc' = [lpc EXCEPT ![c] = "idle"]
  /\ resp' = [resp EXCEPT ![c] = <<>>]
  /\ values' = [values EXCEPT ![c] = <<>>]
  /\ result' = [result EXCEPT ![c] = NoResult]
  /\ requests' = [requests EXCEPT ![c] = 0]
  /\ settledBy' = [settledBy EXCEPT ![c] = 0]

\* The cycle ends: fetchData's promise was fulfilled.
LoadSucceeded(c) ==
  /\ lpc[c] = "resolved"
  /\ afterLoad
  /\ Drop(c)
  /\ UNCHANGED <<snarfURLs, treeVars, instVars>>

\* The cycle ends: fetchData's promise was rejected.
LoadFailed(c) ==
  /\ lpc[c] = "rejected"
  /\ onLoadError
  /\ Drop(c)
  /\ UNCHANGED <<snarfURLs, treeVars, instVars>>

LoadNext ==
  \E c \in Cycles :
    \/ Load(c)
    \/ \E i \in 1..MaxURLs, ok \in BOOLEAN : FetchResponds(c, i, ok)
    \/ LoadSucceeded(c)
    \/ LoadFailed(c)

----------------------------------------------------------------------------
\* SpecInstall: snarfItem.

Installs == 1..MaxInstalls

NoMsgs == [open |-> 0, prompt |-> 0, success |-> 0, error |-> 0]

\* workspace.workspaceFolders?.[0].uri.fsPath: ?. guards workspaceFolders only,
\* so the first element of an empty list, undefined, has its uri read.
FirstFsPath(folders) ==
  IF folders.tag = "undefined" THEN [threw |-> FALSE, val |-> JsUndefined]
  ELSE IF Len(folders.val) = 0 THEN [threw |-> TRUE, val |-> JsUndefined]
  ELSE [threw |-> FALSE, val |-> [tag |-> "string", s |-> folders.val[1]]]

\* !dir
NoDir(dir) == dir.tag = "undefined"

\* NeedsPrompt with the existence test left out.
NeverPrompts(exists) == FALSE

\* if (fs.existsSync(unzipPath)) ...
NeedsPrompt(exists) == exists

\* Affirmative as ans !== "No": a dismissed prompt counts as a yes.
AffirmativeUnlessNo(ans) == ans # "No"

\* ans !== "Yes" returns; a dismissed prompt answers undefined.
Affirmative(ans) == ans = "Yes"

\* try { window.withProgress(...) } catch (err) {...}: the thenable withProgress
\* returns is not awaited, so its rejection is no exception of the try block.
CatchRuns(rejected) == FALSE

InstallIdle ==
  /\ workspaceFolders = JsUndefined
  /\ fsDirs = {}
  /\ ipc = [i \in Installs |-> "idle"]
  /\ pack = [i \in Installs |-> "apple"]
  /\ bytes = [i \in Installs |-> "none"]
  /\ found = [i \in Installs |-> "unchecked"]
  /\ answer = [i \in Installs |-> "none"]
  /\ timer = [i \in Installs |-> "idle"]
  /\ progress = [i \in Installs |-> "none"]
  /\ msgs = [i \in Installs |-> NoMsgs]
  /\ gets = [i \in Installs |-> 0]
  /\ writes = [i \in Installs |-> 0]
  /\ unhandled = [i \in Installs |-> FALSE]

InstallInit ==
  /\ workspaceFolders \in {JsUndefined, JsArray(<<>>), JsArray(<<"/ws">>)}
  /\ fsDirs \in SUBSET Names
  /\ ipc = [i \in Installs |-> "idle"]
  /\ pack = [i \in Installs |-> "apple"]
  /\ bytes = [i \in Installs |-> "none"]
  /\ found = [i \in Installs |-> "unchecked"]
  /\ answer = [i \in Installs |-> "none"]
  /\ timer = [i \in Installs |-> "idle"]
  /\ progress = [i \in Installs |-> "none"]
  /\ msgs = [i \in Installs |-> NoMsgs]
  /\ gets = [i \in Installs |-> 0]
  /\ writes = [i \in Installs |-> 0]
  /\ unhandled = [i \in Installs |-> FALSE]

\* snarfItem(item) up to its return, lines 85-115: the guard, then withProgress
\* starts delay(1000) and downloadItem, which issues its fetch (line 92).
SnarfItem(i, p) ==
  /\ ipc[i] = "idle"
  /\ pack' = [pack EXCEPT ![i] = p]
  /\ LET dir == FirstFsPath(workspaceFolders)
     IN IF dir.threw
        THEN /\ ipc' = [ipc EXCEPT ![i] = "threw"]
             /\ UNCHANGED <<msgs, progress, timer, gets>>
        ELSE IF NoDir(dir.val)
        THEN /\ msgs' = [msgs EXCEPT ![i].open = @ + 1]
             /\ ipc' = [ipc EXCEPT ![i] = "returned"]
             /\ UNCHANGED <<progress, timer, gets>>
        ELSE /\ progress' = [progress EXCEPT ![i] = "shown"]
             /\ timer' = [timer EXCEPT ![i] = "running"]
             /\ gets' = [gets EXCEPT ![i] = @ + 1]
             /\ ipc' = [ipc EXCEPT ![i] = "fetching"]
             /\ UNCHANGED msgs
  /\ UNCHANGED <<workspaceFolders, fsDirs, bytes, found, answer, writes, unhandled,
                 treeVars, loadVars>>

\* The fetch settles and the body is buffered, lines 92-93. resp.ok is not read:
\* the body of an error status is buffered like any other.
DownloadResponds(i, body) ==
  /\ ipc[i] = "fetching"
  /\ IF body = "neterr"
     THEN /\ ipc' = [ipc EXCEPT ![i] = "rejected"]
          /\ UNCHANGED bytes
     ELSE /\ bytes' = [bytes EXCEPT ![i] = body]
          /\ ipc' = [ipc EXCEPT ![i] = "opening"]
  /\ UNCHANGED <<workspaceFolders, fsDirs, pack, found, answer, timer, progress,
                 msgs, gets, writes, unhandled,
                 treeVars, loadVars>>

\* unzip.Open.buffer settles, line 94; on success lines 96-103 run up to the
\* next await: the existence check, then the prompt or the call of extract.
OpenArchive(i) ==
  /\ ipc[i] = "opening"
  /\ IF bytes[i] = "corrupt"
     THEN /\ ipc' = [ipc EXCEPT ![i] = "rejected"]
          /\ UNCHANGED <<found, msgs>>
     ELSE LET exists == pack[i] \in fsDirs
          IN /\ found' = [found EXCEPT ![i] = IF exists THEN "present" ELSE "absent"]
             /\ IF NeedsPrompt(exists)
                THEN /\ msgs' = [msgs EXCEPT ![i].prompt = @ + 1]
                     /\ ipc' = [ipc EXCEPT ![i] = "prompting"]
                ELSE /\ ipc' = [ipc EXCEPT ![i] = "extracting"]
                     /\ UNCHANGED msgs
  /\ UNCHANGED <<workspaceFolders, fsDirs, pack, bytes, answer, timer, progress,
                 gets, writes, unhandled,
                 treeVars, loadVars>>

\* The user answers the prompt or dismisses it, lines 99-100.
AnswerPrompt(i, ans) ==
  /\ ipc[i] = "prompting"
  /\ answer' = [answer EXCEPT ![i] = ans]
  /\ ipc' = [ipc EXCEPT ![i] = IF Affirmative(ans) THEN "extracting" ELSE "resolved"]
  /\ UNCHANGED <<workspaceFolders, fsDirs, pack, bytes, found, timer, progress,
                 msgs, gets, writes, unhandled,
                 treeVars, loadVars>>

\* zip.extract settles, lines 103-104: everything written, a failure after some
\* entries were written, or a failure before any was.
ExtractCompletes(i, out) ==
  /\ ipc[i] = "extracting"
  /\ IF out = "failed"
     THEN UNCHANGED <<fsDirs, writes>>
     ELSE /\ fsDirs' = fsDirs \cup {pack[i]}
          /\ writes' = [writes EXCEPT ![i] = @ + 1]
  /\ IF out = "ok"
     THEN /\ msgs' = [msgs EXCEPT ![i].success = @ + 1]
          /\ ipc' = [ipc EXCEPT ![i] = "resolved"]
     ELSE /\ ipc' = [ipc EXCEPT ![i] = "rejected"]
          /\ UNCHANGED msgs
  /\ UNCHANGED <<workspaceFolders, pack, bytes, found, answer, timer, progress,
                 gets, unhandled,
                 treeVars, loadVars>>

\* delay(1000) elapses.
DelayElapses(i) ==
  /\ timer[i] = "running"
  /\ timer' = [timer EXCEPT ![i] = "elapsed"]
  /\ UNCHANGED <<workspaceFolders, fsDirs, ipc, pack, bytes, found, answer,
                 progress, msgs, gets, writes, unhandled,
                 treeVars, loadVars>>

\* Promise.all([delay(1000), downloadItem()]) settles, line 109, and with it the
\* thenable of withProgress; lines 111-114 are where a failure would be reported.
ProgressEnds(i) ==
  /\ progress[i] = "shown"
  /\ \/ ipc[i] = "rejected"
     \/ ipc[i] = "resolved" /\ timer[i] = "elapsed"
  /\ progress' = [progress EXCEPT ![i] = "ended"]
  /\ IF ipc[i] = "rejected"
     THEN IF CatchRuns(TRUE)
          THEN /\ msgs' = [msgs EXCEPT ![i].error = @ + 1]
               /\ UNCHANGED unhandled
          ELSE /\ unhandled' = [unhandled EXCEPT ![i] = TRUE]
               /\ UNCHANGED msgs
     ELSE UNCHANGED <<msgs, unhandled>>
  /\ UNCHANGED <<workspaceFolders, fsDirs, ipc, pack, bytes, found, answer, timer,
                 gets, writes,
                 treeVars, loadVars>>

InstallNext ==
  \E i \in Installs :
    \/ \E p \in Names : SnarfItem(i, p)
    \/ \E body \in {"zip", "corrupt", "neterr"} : DownloadResponds(i, body)
    \/ OpenArchive(i)
    \/ \E ans \in {"Yes", "No", "dismissed"} : AnswerPrompt(i, ans)
    \/ \E out \in {"ok", "partial", "failed"} : ExtractCompletes(i, out)
    \/ DelayElapses(i)
    \/ ProgressEnds(i)

----------------------------------------------------------------------------
\* The specifications.

InitTree == TreeInit /\ LoadIdle /\ InstallIdle

SpecTree == InitTree /\ [][TreeNext]_vars

InitLoad == TreeIdle /\ LoadInit /\ InstallIdle

SpecLoad == InitLoad /\ [][LoadNext]_vars

InitInstall == TreeIdle /\ LoadIdle /\ InstallInit

SpecInstall == InitInstall /\ [][InstallNext]_vars

----------------------------------------------------------------------------
\* The claims.

Count(seq, x) == Cardinality({k \in 1..Len(seq) : seq[k] = x})

\* The package records behind the package nodes of a category node.
Backing(node) == [k \in 1..Len(node.children) |-> node.children[k].item]

Absent == snarfURLs.tag = "undefined"

Empty == snarfURLs.tag = "array" /\ Len(snarfURLs.val) = 0

NoFolderOpen == workspaceFolders.tag = "undefined" \/ Len(workspaceFolders.val) = 0

\* C1: with a workspace open, an install whose download, archive open or
\* extraction failed has shown exactly one error message and left no rejection
\* unhandled once the install is over.
C1_FailureReportedOnce ==
  \A i \in Installs :
    (ipc[i] = "rejected" /\ progress[i] = "ended")
      => (msgs[i].error = 1 /\ ~unhandled[i])

\* C2: in a load of two or more sites, once one fetch has answered with a
\* non-success status the load has failed and holds no tree, whatever the other
\* fetches answered and in whatever order; and a tree is only ever returned when
\* every fetch answered with success.
C2_AllOrNothing ==
  \A c \in Cycles :
    /\ (Len(resp[c]) >= 2 /\ \E i \in 1..Len(resp[c]) : resp[c][i] = "bad")
         => (result[c].tag = "error" /\ lpc[c] = "rejected")
    /\ result[c].tag = "tree" => \A i \in 1..Len(resp[c]) : resp[c][i] = "ok"

C2_Witness ==
  \E c \in Cycles :
    /\ Len(resp[c]) >= 2
    /\ \E i \in 1..Len(resp[c]) : resp[c][i] = "bad"
    /\ \E j \in 1..Len(resp[c]) : resp[c][j] = "ok"
    /\ lpc[c] = "rejected"

\* C3: a successful load of N configured URLs returns exactly N site nodes, the
\* i-th being the node of the manifest served at the i-th URL, in whatever order
\* the fetches completed.
C3_NodesInConfiguredOrder ==
  \A c \in Cycles :
    result[c].tag = "tree" =>
      /\ Len(result[c].nodes) = Len(snarfURLs.val)
      /\ \A i \in 1..Len(snarfURLs.val) :
           /\ result[c].nodes[i].label = Manifest(snarfURLs.val[i]).name
           /\ result[c].nodes[i] = BuildSite(ParseSite(Manifest(snarfURLs.val[i]))).node

\* A load of two different sites has succeeded, and the first site answered last.
C3_Witness ==
  \E c \in Cycles :
    /\ result[c].tag = "tree"
    /\ Len(result[c].nodes) >= 2
    /\ snarfURLs.val[1] # snarfURLs.val[2]
    /\ settledBy[c] = 1

\* C4: whatever load cycles have run, overlapping or not, the two context keys
\* are never both true.
C4_NeverBothTrue == ~(snarfsErrored /\ snarfsLoaded)

\* C5 as stated: with the URL list absent or empty, a load issues no request and
\* ends with the same outcome in both cases, nothing at all.
C5_SameNothingOutcome ==
  \A c \in Cycles :
    (lpc[c] # "idle" /\ (Absent \/ Empty))
      => (requests[c] = 0 /\ lpc[c] = "resolved" /\ result[c] = JsUndefined)

\* C5 as amended: with the URL list absent a load issues no request, raises no
\* error and returns nothing (undefined); with the URL list empty it issues no
\* request, raises no error and returns an empty list of site nodes.
C5_AbsentNothingEmptyList ==
  \A c \in Cycles :
    lpc[c] # "idle" =>
      /\ Absent => (requests[c] = 0 /\ lpc[c] = "resolved" /\ result[c] = JsUndefined)
      /\ Empty => (requests[c] = 0 /\ lpc[c] = "resolved"
                   /\ result[c] = [tag |-> "tree", nodes |-> <<>>])

C5_Witness == Empty /\ \E c \in Cycles : lpc[c] = "resolved" /\ requests[c] = 0

\* C6: an install that found its destination present and got an answer other
\* than "Yes" to the overwrite prompt has written nothing under the destination
\* and has shown neither a success nor an error message.
C6_DeclinedWritesNothing ==
  \A i \in Installs :
    (found[i] = "present" /\ answer[i] \in {"No", "dismissed"})
      => (writes[i] = 0 /\ msgs[i].success = 0 /\ msgs[i].error = 0
          /\ ipc[i] = "resolved" /\ ~unhandled[i])

C6_Witness ==
  \E i \in Installs :
    /\ found[i] = "present"
    /\ answer[i] = "dismissed"
    /\ progress[i] = "ended"

\* C7: an install invoked with no workspace folder open has shown exactly one
\* informational message and nothing else, has issued no request and has
\* written nothing.
C7_NoFolderOneMessage ==
  \A i \in Installs :
    (ipc[i] # "idle" /\ NoFolderOpen)
      => (msgs[i] = [NoMsgs EXCEPT !.open = 1] /\ gets[i] = 0 /\ writes[i] = 0
          /\ ipc[i] = "returned")

\* C8: the site node built from a manifest has one category node per distinct
\* category of its packages, and every package is exactly once in the tree, under
\* the category node labelled with its category.
C8_EveryPackageUnderItsCategory ==
  tpc = "done" =>
    LET kids == tNode.children
        elems == tManifest.elems
    IN /\ \A j, k \in 1..Len(kids) : kids[j].label = kids[k].label => j = k
       /\ {kids[j].label : j \in 1..Len(kids)} = {elems[k].category : k \in 1..Len(elems)}
       /\ \A p \in Range(elems) : \A j \in 1..Len(kids) :
            Count(Backing(kids[j]), p) =
              IF kids[j].label = p.category THEN Count(elems, p) ELSE 0

\* C9: after parsing, the packages of a site are the sequence of the manifest's
\* package elements, one element each, whether the manifest holds one or many.
C9_OneElementPerPackage == tpc # "parse" => tPackages = tManifest.elems

\* C10 as stated: the archive is requested only after the destination was found
\* absent or the user answered "Yes".
C10_PromptBeforeDownload ==
  \A i \in Installs :
    gets[i] > 0 =>
      (found[i] = "absent" \/ (found[i] = "present" /\ answer[i] = "Yes"))

\* C10 as amended: the archive is requested and opened first; the existence
\* check and the prompt come after that and before the extraction, which starts
\* only after the destination was found absent or the user answered "Yes"; an
\* answer other than "Yes" ends the install with nothing extracted, the one
\* request having been made.
C10_DownloadBeforePrompt ==
  \A i \in Installs :
    /\ (found[i] # "unchecked" \/ msgs[i].prompt > 0)
         => (gets[i] = 1 /\ bytes[i] = "zip")
    /\ (ipc[i] = "extracting" \/ writes[i] > 0 \/ msgs[i].success > 0)
         => (found[i] = "absent" \/ (found[i] = "present" /\ answer[i] = "Yes"))
    /\ answer[i] \in {"No", "dismissed"} => (gets[i] = 1 /\ writes[i] = 0)

C10_Witness ==
  \E i \in Installs :
    /\ gets[i] = 1
    /\ found[i] = "present"
    /\ answer[i] = "Yes"
    /\ writes[i] = 1
    /\ msgs[i].success = 1

====
